---- MODULE Spec2Model ----
(***************************************************************************)
(* The ledger engine of src/database.py: one psycopg2 connection shared by *)
(* every caller, the tables, and the operations create_user, add_ad_view,  *)
(* claim_streak, create_withdrawal, get_referral_stats and                 *)
(* reset_daily_stats, with the start handler of src/bot.py that registers  *)
(* users.                                                                  *)
(*                                                                         *)
(* Money is counted in units of 1e-8 (the scale of DECIMAL(15, 8)), the    *)
(* streak multiplier in units of 1e-4 (the scale of DECIMAL(5, 4)), dates  *)
(* and timestamps in whole days.  A telegram id is its decimal digit       *)
(* string, so that the slicing in create_user is modelled as it is done.   *)
(***************************************************************************)
EXTENDS Integers, Sequences, FiniteSets, TLC

(***************************************************************************)
(* Bounds of the model.                                                    *)
(***************************************************************************)
MaxTid == 2
MaxUsers == 2
MaxInitUsers == 1
MaxBalance == 1
MaxAmount == 1
MaxAdViews == 2
MaxWithdrawals == 1
MaxDay == 1
MaxWorkers == 2
MaxStreak == 500

(***************************************************************************)
(* Program constants.                                                      *)
(***************************************************************************)
PER_AD_REWARD == 24000
STREAK_BONUS == 200000
StreakRate == 20
MultiplierBase == 10000
MultiplierCap == 20000
CodeLen == 10
Int4Digits == 9
ShareTenths == 2
WindowDays == 30

NULL == 0
NoDate == -1
NoTid == <<>>

\* ADMIN_ID of config.py: a telegram id that no SERIAL id of the model equals.
BigTid == <<6, 6, 5, 3, 6, 1, 6, 6, 7, 2>>
TelegramIds == {<<n>> : n \in 1..MaxTid} \cup {BigTid}
Rewards == {PER_AD_REWARD}
Amounts == (-1)..MaxAmount
Methods == {"crypto_bot"}

\* Names bound in the namespace of database.py by its import statements.
\* Variant: the import statement also binds the reward constants of config.py.
ModuleNamesWithRewards ==
    {"psycopg2", "DB_CONFIG", "datetime", "timedelta", "PER_AD_REWARD", "STREAK_BONUS"}

ModuleNames == {"psycopg2", "DB_CONFIG", "datetime", "timedelta"}

\* The methods the class Database defines.
DatabaseMethods ==
    {"connect", "create_tables", "get_user", "create_user", "update_user_language",
     "update_user_subscription", "add_ad_view", "claim_streak", "get_user_stats",
     "create_withdrawal", "get_referral_stats", "reset_daily_stats"}

(***************************************************************************)
(* Helpers.                                                                *)
(***************************************************************************)
RECURSIVE DigitsValue(_)
DigitsValue(d) ==
    IF d = <<>> THEN 0 ELSE 10 * DigitsValue(SubSeq(d, 1, Len(d) - 1)) + d[Len(d)]

\* The value a telegram id takes in an INTEGER column, 0 when it has none here.
AsInt4(tid) == IF Len(tid) <= Int4Digits THEN DigitsValue(tid) ELSE 0

\* f"ref{telegram_id}"[-10:]
DerivedCode(tid) ==
    LET s == <<"r", "e", "f">> \o tid
    IN  IF Len(s) <= CodeLen THEN s ELSE SubSeq(s, Len(s) - CodeLen + 1, Len(s))

RECURSIVE SumAmounts(_, _)
SumAmounts(rows, uid) ==
    IF rows = <<>> THEN 0
    ELSE (IF Head(rows).user_id = uid THEN Head(rows).amount ELSE 0)
         + SumAmounts(Tail(rows), uid)

Min(a, b) == IF a <= b THEN a ELSE b

\* Variant: streak_multiplier has no DEFAULT 1.0 and starts at 0.
NewUserZeroMultiplier(tid, code, referred_by, now) ==
    [telegram_id |-> tid, balance |-> 0, hold_balance |-> 0, earned_today |-> 0,
     earned_total |-> 0, watched_today |-> 0, streak |-> 0,
     streak_multiplier |-> 0, referral_code |-> code,
     referred_by |-> referred_by, last_streak_claim |-> NoDate]

\* A row of users with the column defaults of create_tables.
NewUser(tid, code, referred_by, now) ==
    [telegram_id |-> tid, balance |-> 0, hold_balance |-> 0, earned_today |-> 0,
     earned_total |-> 0, watched_today |-> 0, streak |-> 0,
     streak_multiplier |-> MultiplierBase, referral_code |-> code,
     referred_by |-> referred_by, last_streak_claim |-> NoDate]

EmptyStore == [users |-> <<>>, withdrawals |-> <<>>, referrals |-> <<>>, ad_views |-> <<>>]

\* SELECT id FROM users WHERE telegram_id = tid  (NULL when there is no row)
UserId(s, tid) ==
    IF \E i \in DOMAIN s.users : s.users[i].telegram_id = tid
    THEN CHOOSE i \in DOMAIN s.users : s.users[i].telegram_id = tid
    ELSE NULL

Ret(ok, msg, val) == [ok |-> ok, msg |-> msg, val |-> val]

(***************************************************************************)
(* State.  store is what the connection sees, committed what is durable;   *)
(* tx tells whether the connection's transaction is aborted (INERROR) or   *)
(* accepts statements (IDLE); seq is users_id_seq.                         *)
(***************************************************************************)
VARIABLES store, committed, tx, seq, today, run, calls

vars == <<store, committed, tx, seq, today, run, calls>>

Workers == 1..MaxWorkers

Conn == [store |-> store, committed |-> committed, tx |-> tx, seq |-> seq]

\* An exception raised by the server: the transaction is aborted, nothing
\* of it is durable, and no handler of the module rolls it back.
Aborted(c, ret) == [c EXCEPT !.store = c.committed, !.tx = "INERROR"] @@ [ret |-> ret]

\* A return or a Python exception after statements that wrote nothing.
Returned(c, ret) == c @@ [ret |-> ret]

\* connection.commit()
Committed(c, s, ret) == [c EXCEPT !.store = s, !.committed = s, !.tx = "IDLE"] @@ [ret |-> ret]

\* Any cursor.execute on an aborted transaction raises InFailedSqlTransaction.
Refused(c) == c @@ [ret |-> Ret(FALSE, "InFailedSqlTransaction", NULL)]


(***************************************************************************)
(* Database.create_user                                                    *)
(***************************************************************************)
\* Variant: the users table has no UNIQUE constraints.
UsersInsertUnconstrained(s, tid, code) == TRUE

\* Variant: referral_code VARCHAR(10) has no UNIQUE constraint.
UsersInsertTelegramIdOnly(s, tid, code) ==
    \A i \in DOMAIN s.users : s.users[i].telegram_id # tid

\* telegram_id BIGINT UNIQUE NOT NULL, referral_code VARCHAR(10) UNIQUE
UsersInsertAccepted(s, tid, code) ==
    \A i \in DOMAIN s.users :
        /\ s.users[i].telegram_id # tid
        /\ s.users[i].referral_code # code

\* Variant: the two ids are bound in the other order.
ReferralInsertSwapped(s, referred_by, user_id, now) ==
    [s EXCEPT !.referrals = Append(@,
        [referrer_id |-> user_id, referred_id |-> referred_by, created_at |-> now])]

\* INSERT INTO referrals (referrer_id, referred_id) VALUES (referred_by, user_id)
ReferralInsert(s, referred_by, user_id, now) ==
    [s EXCEPT !.referrals = Append(@,
        [referrer_id |-> referred_by, referred_id |-> user_id, created_at |-> now])]

create_user(c, tid, referral_code, referred_by, now) ==
    IF c.tx = "INERROR" THEN Refused(c)
    ELSE
      LET code   == IF referral_code = <<>> THEN DerivedCode(tid) ELSE referral_code
          id     == c.seq
          c1     == [c EXCEPT !.seq = c.seq + 1]
          unique == UsersInsertAccepted(c.store, tid, code)
          users1 == c.store.users @@ (id :> NewUser(tid, code, referred_by, now))
          fk     == referred_by = NULL \/ referred_by \in DOMAIN users1
          s1     == [c.store EXCEPT !.users = users1]
          s2     == IF referred_by # NULL THEN ReferralInsert(s1, referred_by, id, now) ELSE s1
      IN  IF ~unique THEN Aborted(c1, Ret(FALSE, "UniqueViolation", NULL))
          ELSE IF ~fk THEN Aborted(c1, Ret(FALSE, "ForeignKeyViolation", NULL))
          ELSE Committed(c1, s2, Ret(TRUE, "", id))

(***************************************************************************)
(* Database.add_ad_view                                                    *)
(***************************************************************************)
\* UPDATE users SET watched_today = watched_today + 1, ... WHERE telegram_id = tid
\* Variant: earned_total is computed from the earned_today column.
AdViewUpdateColumnMixup(s, tid, user_data, reward) ==
    [s EXCEPT !.users = [i \in DOMAIN s.users |->
        IF s.users[i].telegram_id = tid
        THEN [s.users[i] EXCEPT !.watched_today = @ + 1,
                                !.earned_today = @ + reward,
                                !.earned_total = s.users[i].earned_today + reward,
                                !.hold_balance = @ + reward]
        ELSE s.users[i]]]

\* Variant: the statement writes the values fetched by the SELECT plus the
\* reward instead of incrementing the stored columns.
AdViewUpdateFromRead(s, tid, user_data, reward) ==
    [s EXCEPT !.users = [i \in DOMAIN s.users |->
        IF s.users[i].telegram_id = tid
        THEN [s.users[i] EXCEPT !.watched_today = user_data.watched_today + 1,
                                !.earned_today = user_data.earned_today + reward,
                                !.earned_total = user_data.earned_total + reward,
                                !.hold_balance = user_data.hold_balance + reward]
        ELSE s.users[i]]]

\* Variant: the statement does not credit hold_balance.
AdViewUpdateNoHold(s, tid, user_data, reward) ==
    [s EXCEPT !.users = [i \in DOMAIN s.users |->
        IF s.users[i].telegram_id = tid
        THEN [s.users[i] EXCEPT !.watched_today = @ + 1,
                                !.earned_today = @ + reward,
                                !.earned_total = @ + reward]
        ELSE s.users[i]]]

\* Variant: the statement credits earned_today twice.
AdViewUpdateTodayTwice(s, tid, user_data, reward) ==
    [s EXCEPT !.users = [i \in DOMAIN s.users |->
        IF s.users[i].telegram_id = tid
        THEN [s.users[i] EXCEPT !.watched_today = @ + 1,
                                !.earned_today = @ + reward + reward,
                                !.earned_total = @ + reward,
                                !.hold_balance = @ + reward]
        ELSE s.users[i]]]

\* user_data is the row fetched by the SELECT before it; the statement is
\* relative to the stored row and does not use it.
AdViewUpdate(s, tid, user_data, reward) ==
    [s EXCEPT !.users = [i \in DOMAIN s.users |->
        IF s.users[i].telegram_id = tid
        THEN [s.users[i] EXCEPT !.watched_today = @ + 1,
                                !.earned_today = @ + reward,
                                !.earned_total = @ + reward,
                                !.hold_balance = @ + reward]
        ELSE s.users[i]]]

\* The value bound to ad_views.user_id: the telegram id the caller passed.
AdViewUserId(s, tid) == AsInt4(tid)

\* Variant: the statement replaces the log by the new row.
AdViewInsertReplace(s, tid, reward, now) ==
    [s EXCEPT !.ad_views =
        <<[user_id |-> AdViewUserId(s, tid), ad_type |-> "monetag",
           reward |-> reward, created_at |-> now]>>]

\* INSERT INTO ad_views (user_id, ad_type, reward); user_id REFERENCES users(id)
AdViewInsert(s, tid, reward, now) ==
    [s EXCEPT !.ad_views = Append(@,
        [user_id |-> AdViewUserId(s, tid), ad_type |-> "monetag",
         reward |-> reward, created_at |-> now])]

AdViewInsertAccepted(s, tid) == AdViewUserId(s, tid) \in DOMAIN s.users

add_ad_view(c, tid, reward, now) ==
    IF c.tx = "INERROR" THEN Refused(c)
    ELSE IF UserId(c.store, tid) = NULL THEN Returned(c, Ret(FALSE, "", NULL))
    ELSE
      LET user_data == c.store.users[UserId(c.store, tid)]
          s1 == AdViewUpdate(c.store, tid, user_data, reward)
      IN  IF ~AdViewInsertAccepted(s1, tid)
          THEN Aborted(c, Ret(FALSE, "ForeignKeyViolation", NULL))
          ELSE Committed(c, AdViewInsert(s1, tid, reward, now), Ret(TRUE, "", NULL))

(***************************************************************************)
(* Database.claim_streak                                                   *)
(***************************************************************************)
NewStreak(streak, last_streak_claim, now) ==
    IF last_streak_claim # NoDate /\ now - last_streak_claim = 1
    THEN streak + 1 ELSE 1

\* min(1.0 + (new_streak * 0.002), 2.0)
NewMultiplier(new_streak) == Min(MultiplierBase + new_streak * StreakRate, MultiplierCap)

\* STREAK_BONUS * new_multiplier
\* (in units of 1e-8, of a multiplier in units of 1e-4; the division is exact)
Bonus(new_multiplier) == (STREAK_BONUS \div MultiplierBase) * new_multiplier

StreakUpdate(s, tid, new_streak, new_multiplier, bonus, now) ==
    [s EXCEPT !.users = [i \in DOMAIN s.users |->
        IF s.users[i].telegram_id = tid
        THEN [s.users[i] EXCEPT !.streak = new_streak,
                                !.streak_multiplier = new_multiplier,
                                !.earned_today = @ + bonus,
                                !.earned_total = @ + bonus,
                                !.hold_balance = @ + bonus,
                                !.last_streak_claim = now]
        ELSE s.users[i]]]

claim_streak(c, tid, now) ==
    IF c.tx = "INERROR" THEN Refused(c)
    ELSE IF UserId(c.store, tid) = NULL THEN Returned(c, Ret(FALSE, "User not found", NULL))
    ELSE
      LET u              == c.store.users[UserId(c.store, tid)]
          new_streak     == NewStreak(u.streak, u.last_streak_claim, now)
          new_multiplier == NewMultiplier(new_streak)
          bonus          == Bonus(new_multiplier)
      IN  IF u.last_streak_claim # NoDate /\ u.last_streak_claim = now
          THEN Returned(c, Ret(FALSE, "Already claimed today", NULL))
          ELSE IF "STREAK_BONUS" \notin ModuleNames
          THEN Returned(c, Ret(FALSE, "NameError", NULL))
          ELSE Committed(c, StreakUpdate(c.store, tid, new_streak, new_multiplier, bonus, now),
                         Ret(TRUE, "", bonus))

(***************************************************************************)
(* Database.create_withdrawal                                              *)
(***************************************************************************)
\* Variant: the amount is taken from hold_balance.
WithdrawalDebitHold(s, tid, amount) ==
    [s EXCEPT !.users = [i \in DOMAIN s.users |->
        IF s.users[i].telegram_id = tid
        THEN [s.users[i] EXCEPT !.hold_balance = @ - amount]
        ELSE s.users[i]]]

\* UPDATE users SET balance = balance - amount WHERE telegram_id = tid
WithdrawalDebit(s, tid, amount) ==
    [s EXCEPT !.users = [i \in DOMAIN s.users |->
        IF s.users[i].telegram_id = tid
        THEN [s.users[i] EXCEPT !.balance = @ - amount]
        ELSE s.users[i]]]

\* Variant: user_id is bound to the telegram id, as in the ad_views insert.
WithdrawalInsertTelegramId(s, tid, method, amount, now) ==
    [s EXCEPT !.withdrawals = Append(@,
        [user_id |-> AsInt4(tid), method |-> method, amount |-> amount,
         status |-> "pending"])]

\* INSERT INTO withdrawals (user_id, ...) VALUES ((SELECT id FROM users WHERE ...), ...)
WithdrawalInsert(s, tid, method, amount, now) ==
    [s EXCEPT !.withdrawals = Append(@,
        [user_id |-> UserId(s, tid), method |-> method, amount |-> amount,
         status |-> "pending"])]

\* Variant: the comparison is not strict.
InsufficientNotStrict(balance, amount) == balance <= amount

\* if balance < amount: return False, "Insufficient balance"
Insufficient(balance, amount) == balance < amount

create_withdrawal(c, tid, method, amount, now) ==
    IF c.tx = "INERROR" THEN Refused(c)
    ELSE IF UserId(c.store, tid) = NULL THEN Returned(c, Ret(FALSE, "TypeError", NULL))
    ELSE
      LET balance == c.store.users[UserId(c.store, tid)].balance
      IN  IF Insufficient(balance, amount)
          THEN Returned(c, Ret(FALSE, "Insufficient balance", NULL))
          ELSE Committed(c,
                 WithdrawalInsert(WithdrawalDebit(c.store, tid, amount), tid, method, amount, now),
                 Ret(TRUE, "Withdrawal request created successfully", NULL))

(***************************************************************************)
(* Database.reset_daily_stats                                              *)
(***************************************************************************)
\* Variant: the statement also clears hold_balance.
DailyResetHold(s) ==
    [s EXCEPT !.users = [i \in DOMAIN s.users |->
        [s.users[i] EXCEPT !.watched_today = 0, !.earned_today = 0, !.hold_balance = 0]]]

\* Variant: the statement clears earned_total instead of earned_today.
DailyResetEarnedTotal(s) ==
    [s EXCEPT !.users = [i \in DOMAIN s.users |->
        [s.users[i] EXCEPT !.watched_today = 0, !.earned_total = 0]]]

\* Variant: a read-then-write loop that writes back the rows of the last
\* committed snapshot with the two counters cleared.
DailyResetFromSnapshot(s) ==
    [s EXCEPT !.users = [i \in DOMAIN s.users |->
        IF i \in DOMAIN committed.users
        THEN [committed.users[i] EXCEPT !.watched_today = 0, !.earned_today = 0]
        ELSE [s.users[i] EXCEPT !.watched_today = 0, !.earned_today = 0]]]

\* UPDATE users SET watched_today = 0, earned_today = 0
DailyReset(s) ==
    [s EXCEPT !.users = [i \in DOMAIN s.users |->
        [s.users[i] EXCEPT !.watched_today = 0, !.earned_today = 0]]]

reset_daily_stats(c) ==
    IF c.tx = "INERROR" THEN Refused(c)
    ELSE Committed(c, DailyReset(c.store), Ret(TRUE, "", NULL))

(***************************************************************************)
(* Database.get_referral_stats.  Profits are counted in units of 1e-9, the *)
(* scale of reward * 0.2.                                                  *)
(***************************************************************************)
\* ... FROM referrals WHERE referrer_id = user_id [AND created_at >= NOW() - 30 days]
ReferralsOf(s, user_id, since) ==
    {i \in DOMAIN s.referrals : /\ s.referrals[i].referrer_id = user_id
                                /\ s.referrals[i].created_at >= since}

\* COUNT(DISTINCT r.referred_id) FROM referrals r JOIN ad_views a ON r.referred_id = a.user_id
ActiveReferred(s, user_id, since) ==
    {s.referrals[i].referred_id : i \in
        {j \in ReferralsOf(s, user_id, since) :
            \E k \in DOMAIN s.ad_views : s.ad_views[k].user_id = s.referrals[j].referred_id}}

\* SUM(a.reward * 0.2) FROM ad_views a JOIN referrals r ON a.user_id = r.referred_id
RECURSIVE SumShares(_, _, _, _, _)
SumShares(s, user_id, k, since_r, since_a) ==
    IF k = 0 THEN 0
    ELSE LET a == s.ad_views[k]
             n == Cardinality({i \in ReferralsOf(s, user_id, since_r) :
                                  s.referrals[i].referred_id = a.user_id})
         IN  (IF a.created_at >= since_a THEN n * a.reward * ShareTenths ELSE 0)
             + SumShares(s, user_id, k - 1, since_r, since_a)

get_referral_stats(c, tid, now) ==
    IF c.tx = "INERROR" THEN Ret(FALSE, "InFailedSqlTransaction", NULL)
    ELSE IF UserId(c.store, tid) = NULL THEN Ret(FALSE, "TypeError", NULL)
    ELSE
      LET s == c.store
          user_id == UserId(s, tid)
          ever == NoDate
          since == now - WindowDays
      IN  Ret(TRUE, "",
          [total_referrals |-> Cardinality(ReferralsOf(s, user_id, ever)),
           active_referrals |-> Cardinality(ActiveReferred(s, user_id, ever)),
           new_referrals_30 |-> Cardinality(ReferralsOf(s, user_id, since)),
           new_active_referrals_30 |-> Cardinality(ActiveReferred(s, user_id, since)),
           profit_30 |-> SumShares(s, user_id, Len(s.ad_views), ever, since),
           new_profit_30 |-> SumShares(s, user_id, Len(s.ad_views), since, since)])

(***************************************************************************)
(* start of bot.py: the first contact of a telegram id, with the argument  *)
(* of /start (the empty string when there is none).                        *)
(***************************************************************************)
\* What /start can carry: nothing, the code of a telegram id, or a code that
\* no user has.
StartArgs == {<<>>, <<"x">>} \cup {DerivedCode(t) : t \in TelegramIds}

\* db.get_user: the row's id, None when there is no row or the query raises.
get_user(c, tid) == IF c.tx = "INERROR" THEN NULL ELSE UserId(c.store, tid)

\* With an argument the handler calls db.get_user_by_referral_code, which the
\* class does not define: the AttributeError leaves the handler before any
\* create_user.
start(c, tid, args, now) ==
    IF get_user(c, tid) # NULL THEN Returned(c, Ret(TRUE, "", get_user(c, tid)))
    ELSE IF args # <<>>
    THEN IF "get_user_by_referral_code" \notin DatabaseMethods
         THEN Returned(c, Ret(FALSE, "AttributeError", NULL))
         ELSE create_user(c, tid, <<>>, NULL, now)
    ELSE create_user(c, tid, <<>>, NULL, now)

(***************************************************************************)
(* The stores the connection can find when the process starts: the tables  *)
(* of create_tables holding users registered earlier, whose balance column *)
(* is credited outside this module.                                        *)
(***************************************************************************)
InitUsers ==
    UNION {{f \in [1..n -> [tid : TelegramIds, balance : 0..MaxBalance]] :
                \A i, j \in 1..n : i # j => f[i].tid # f[j].tid} : n \in 0..MaxInitUsers}

InitStore(f) ==
    [EmptyStore EXCEPT !.users = [i \in DOMAIN f |->
        [NewUser(f[i].tid, DerivedCode(f[i].tid), NULL, 0) EXCEPT !.balance = f[i].balance]]]

NoRun == [tid |-> NoTid, reward |-> 0, n |-> 0, et0 |-> 0, wt0 |-> 0]

NoData == [balance |-> 0, watched_today |-> 0, earned_today |-> 0,
           earned_total |-> 0, hold_balance |-> 0, streak |-> 0,
           last_streak_claim |-> NoDate]

IdleCall == [op |-> "none", pc |-> "idle", tid |-> NoTid, arg |-> 0,
             data |-> NoData, ret |-> Ret(FALSE, "", NULL)]

Init ==
    \E f \in InitUsers :
        /\ store = InitStore(f)
        /\ committed = InitStore(f)
        /\ tx = "IDLE"
        /\ seq = Len(f) + 1
        /\ today = 0
        /\ run = NoRun
        /\ calls = [w \in Workers |-> IdleCall]

(***************************************************************************)
(* Callers that run one after the other: one action per call.  run counts  *)
(* the successful add_ad_view calls made in a row for one user with one    *)
(* reward, and keeps the user's counters from before the first of them.    *)
(***************************************************************************)
RunAfter(op, tid, arg, ok) ==
    IF op = "add_ad_view" /\ ok
    THEN IF run.n > 0 /\ run.tid = tid /\ run.reward = arg
         THEN [run EXCEPT !.n = @ + 1]
         ELSE [tid |-> tid, reward |-> arg, n |-> 1,
               et0 |-> store.users[UserId(store, tid)].earned_total,
               wt0 |-> store.users[UserId(store, tid)].watched_today]
    ELSE IF op = "reset_daily_stats" \/ tid = run.tid THEN NoRun
    ELSE run

Finish(r, op, tid, arg) ==
    /\ Cardinality(DOMAIN r.store.users) <= MaxUsers
    /\ Len(r.store.ad_views) <= MaxAdViews
    /\ Len(r.store.withdrawals) <= MaxWithdrawals
    /\ store' = r.store
    /\ committed' = r.committed
    /\ tx' = r.tx
    /\ seq' = r.seq
    /\ run' = RunAfter(op, tid, arg, r.ret.ok)
    /\ UNCHANGED <<today, calls>>

CreateUser(tid, referred_by) ==
    /\ Finish(create_user(Conn, tid, <<>>, referred_by, today), "create_user", tid, referred_by)

AddAdView(tid, reward) ==
    /\ Finish(add_ad_view(Conn, tid, reward, today), "add_ad_view", tid, reward)

ClaimStreak(tid) ==
    /\ Finish(claim_streak(Conn, tid, today), "claim_streak", tid, 0)

CreateWithdrawal(tid, method, amount) ==
    /\ Finish(create_withdrawal(Conn, tid, method, amount, today), "create_withdrawal", tid, amount)

ResetDailyStats ==
    /\ Finish(reset_daily_stats(Conn), "reset_daily_stats", NoTid, 0)

Start(tid, args) ==
    /\ Finish(start(Conn, tid, args, today), "start", tid, 0)

\* datetime.now().date() moves on.
AdvanceDay ==
    /\ today < MaxDay
    /\ today' = today + 1
    /\ UNCHANGED <<store, committed, tx, seq, run, calls>>

Next ==
    \/ \E tid \in TelegramIds, r \in 0..MaxUsers : CreateUser(tid, r)
    \/ \E tid \in TelegramIds, reward \in Rewards : AddAdView(tid, reward)
    \/ \E tid \in TelegramIds : ClaimStreak(tid)
    \/ \E tid \in TelegramIds, m \in Methods, a \in Amounts : CreateWithdrawal(tid, m, a)
    \/ ResetDailyStats
    \/ \E tid \in TelegramIds, args \in StartArgs : Start(tid, args)
    \/ AdvanceDay

Spec == Init /\ [][Next]_vars

(***************************************************************************)
(* claim_streak over the streaks a stored row can hold: the store found at *)
(* start holds one user that never claimed (streak 0) or whose last claim, *)
(* on day 0, left it a streak of n and the multiplier of n.                *)
(***************************************************************************)
StreakStore(tid, n) ==
    [EmptyStore EXCEPT !.users =
        <<[NewUser(tid, DerivedCode(tid), NULL, 0) EXCEPT
              !.streak = n,
              !.streak_multiplier = IF n = 0 THEN MultiplierBase ELSE NewMultiplier(n),
              !.last_streak_claim = IF n = 0 THEN NoDate ELSE 0]>>]

InitStreak ==
    \E tid \in TelegramIds, n \in 0..MaxStreak :
        /\ store = StreakStore(tid, n)
        /\ committed = StreakStore(tid, n)
        /\ tx = "IDLE"
        /\ seq = 2
        /\ today = 0
        /\ run = NoRun
        /\ calls = [w \in Workers |-> IdleCall]

NextStreak ==
    \/ \E tid \in TelegramIds : ClaimStreak(tid)
    \/ AdvanceDay

SpecStreak == InitStreak /\ [][NextStreak]_vars

\* The tables as create_tables makes them in a database that had none.
InitEmpty ==
    /\ store = EmptyStore
    /\ committed = EmptyStore
    /\ tx = "IDLE"
    /\ seq = 1
    /\ today = 0
    /\ run = NoRun
    /\ calls = [w \in Workers |-> IdleCall]

SpecEmpty == InitEmpty /\ [][Next]_vars

(***************************************************************************)
(* create_user over telegram ids of more than ten digits: LongTid ends in  *)
(* the ten digits of BigTid, so f"ref{telegram_id}"[-10:] is the same for  *)
(* both.  The caller keeps what create_user returned in calls[1].          *)
(***************************************************************************)
LongTid == <<1>> \o BigTid

RegistrationIds == TelegramIds \cup {LongTid}

Register(tid, referred_by) ==
    LET r == create_user(Conn, tid, <<>>, referred_by, today) IN
    /\ Cardinality(DOMAIN r.store.users) <= MaxUsers
    /\ store' = r.store
    /\ committed' = r.committed
    /\ tx' = r.tx
    /\ seq' = r.seq
    /\ calls' = [calls EXCEPT ![1] =
            [IdleCall EXCEPT !.op = "create_user", !.pc = "done", !.tid = tid,
                             !.arg = referred_by, !.ret = r.ret]]
    /\ UNCHANGED <<today, run>>

NextReg ==
    \/ \E tid \in RegistrationIds, r \in 0..MaxUsers : Register(tid, r)
    \/ \E tid \in RegistrationIds, args \in StartArgs : Start(tid, args)

SpecReg == Init /\ [][NextReg]_vars

(***************************************************************************)
(* Callers that run at the same time on the shared connection: each call   *)
(* of add_ad_view, claim_streak, create_withdrawal or reset_daily_stats is  *)
(* the sequence of its statements, and the statements of different calls   *)
(* interleave in one transaction.                                          *)
(***************************************************************************)
\* What a claim_streak call computes from the row it fetched.
ClaimOf(fr) ==
    LET new_streak == NewStreak(fr.data.streak, fr.data.last_streak_claim, today)
    IN  [new_streak |-> new_streak,
         new_multiplier |-> NewMultiplier(new_streak),
         bonus |-> Bonus(NewMultiplier(new_streak))]

Done(w, ret) == calls' = [calls EXCEPT ![w].pc = "done", ![w].ret = ret]

Goto(w, pc) == calls' = [calls EXCEPT ![w].pc = pc]

Begin(w, op, tid, arg) ==
    /\ calls[w].pc = "idle"
    /\ calls' = [calls EXCEPT ![w] =
            [IdleCall EXCEPT !.op = op, !.tid = tid, !.arg = arg,
                             !.pc = IF op = "reset_daily_stats" THEN "update" ELSE "select"]]
    /\ UNCHANGED <<store, committed, tx, seq, today, run>>

\* cursor.execute("SELECT ... FROM users WHERE telegram_id = %s"); fetchone()
Select(w) ==
    LET fr == calls[w] uid == UserId(store, fr.tid) IN
    /\ fr.pc = "select"
    /\ IF tx = "INERROR" THEN Done(w, Ret(FALSE, "InFailedSqlTransaction", NULL))
       ELSE IF uid = NULL
       THEN Done(w, Ret(FALSE, CASE fr.op = "add_ad_view" -> ""
                                 [] fr.op = "claim_streak" -> "User not found"
                                 [] OTHER -> "TypeError", NULL))
       ELSE IF fr.op = "create_withdrawal" /\ Insufficient(store.users[uid].balance, fr.arg)
       THEN Done(w, Ret(FALSE, "Insufficient balance", NULL))
       ELSE IF fr.op = "claim_streak" /\ store.users[uid].last_streak_claim # NoDate
                                     /\ store.users[uid].last_streak_claim = today
       THEN Done(w, Ret(FALSE, "Already claimed today", NULL))
       ELSE IF fr.op = "claim_streak" /\ "STREAK_BONUS" \notin ModuleNames
       THEN Done(w, Ret(FALSE, "NameError", NULL))
       ELSE calls' = [calls EXCEPT ![w].pc = "update",
                        ![w].data = [f \in DOMAIN NoData |-> store.users[uid][f]]]
    /\ UNCHANGED <<store, committed, tx, seq, today, run>>

\* cursor.execute("UPDATE users SET ... WHERE telegram_id = %s")
Update(w) ==
    LET fr == calls[w] IN
    /\ fr.pc = "update"
    /\ IF tx = "INERROR"
       THEN Done(w, Ret(FALSE, "InFailedSqlTransaction", NULL)) /\ UNCHANGED store
       ELSE /\ Goto(w, IF fr.op \in {"add_ad_view", "create_withdrawal"}
                        THEN "insert" ELSE "commit")
            /\ store' = CASE fr.op = "add_ad_view" ->
                                AdViewUpdate(store, fr.tid, fr.data, fr.arg)
                           [] fr.op = "create_withdrawal" ->
                                WithdrawalDebit(store, fr.tid, fr.arg)
                           [] fr.op = "claim_streak" ->
                                StreakUpdate(store, fr.tid, ClaimOf(fr).new_streak,
                                             ClaimOf(fr).new_multiplier, ClaimOf(fr).bonus, today)
                           [] OTHER -> DailyReset(store)
    /\ UNCHANGED <<committed, tx, seq, today, run>>

\* cursor.execute("INSERT INTO ad_views ..."), cursor.execute("INSERT INTO withdrawals ...")
Insert(w) ==
    LET fr == calls[w] IN
    /\ fr.pc = "insert"
    /\ IF tx = "INERROR"
       THEN Done(w, Ret(FALSE, "InFailedSqlTransaction", NULL)) /\ UNCHANGED <<store, tx>>
       ELSE IF fr.op = "add_ad_view" /\ ~AdViewInsertAccepted(store, fr.tid)
       THEN /\ Done(w, Ret(FALSE, "ForeignKeyViolation", NULL))
            /\ store' = committed
            /\ tx' = "INERROR"
       ELSE /\ Goto(w, "commit")
            /\ store' = IF fr.op = "add_ad_view"
                        THEN AdViewInsert(store, fr.tid, fr.arg, today)
                        ELSE WithdrawalInsert(store, fr.tid, "crypto_bot", fr.arg, today)
            /\ UNCHANGED tx
    /\ UNCHANGED <<committed, seq, today, run>>

\* self.connection.commit(): COMMIT ends an aborted transaction by rolling
\* it back and raises nothing.
Commit(w) ==
    LET fr == calls[w] IN
    /\ fr.pc = "commit"
    /\ Done(w, Ret(TRUE,
                    IF fr.op = "create_withdrawal"
                    THEN "Withdrawal request created successfully" ELSE "",
                    IF fr.op = "claim_streak" THEN ClaimOf(fr).bonus ELSE NULL))
    /\ committed' = IF tx = "INERROR" THEN committed ELSE store
    /\ store' = IF tx = "INERROR" THEN committed ELSE store
    /\ tx' = "IDLE"
    /\ UNCHANGED <<seq, today, run>>

NextConc ==
    \/ \E w \in Workers, tid \in TelegramIds, reward \in Rewards :
           Begin(w, "add_ad_view", tid, reward)
    \/ \E w \in Workers, tid \in TelegramIds, a \in Amounts :
           Begin(w, "create_withdrawal", tid, a)
    \/ \E w \in Workers, tid \in TelegramIds : Begin(w, "claim_streak", tid, 0)
    \/ \E w \in Workers : Begin(w, "reset_daily_stats", NoTid, 0)
    \/ \E w \in Workers : Select(w)
    \/ \E w \in Workers : Update(w)
    \/ \E w \in Workers : Insert(w)
    \/ \E w \in Workers : Commit(w)

SpecConc == Init /\ [][NextConc]_vars

(***************************************************************************)
(* Properties.  A property of one call is stated of the call's outcome in  *)
(* every reachable state in which the connection accepts statements; an    *)
(* aborted transaction answers every call with the store's own error.      *)
(***************************************************************************)
Row(s, tid) == s.users[UserId(s, tid)]

Known(tid) == UserId(store, tid) # NULL

ConnOf(r) == [store |-> r.store, committed |-> r.committed, tx |-> r.tx, seq |-> r.seq]

Ledger(s, u) == s.users[u].balance + SumAmounts(s.withdrawals, u)

AllDone == \A w \in Workers : calls[w].pc = "done"

RECURSIVE SumRewards(_)
SumRewards(W) ==
    IF W = {} THEN 0
    ELSE LET w == CHOOSE x \in W : TRUE IN calls[w].arg + SumRewards(W \ {w})

\* C1: create_withdrawal for a stored user with an amount above the balance
\* returns "Insufficient balance", inserts no withdrawals row and leaves the
\* balance (the whole store) as it was; with an amount equal to the balance it
\* succeeds, inserts one row and leaves the balance at exactly 0.
C1_BalanceCheck ==
    tx # "INERROR" =>
      \A tid \in TelegramIds, m \in Methods :
        Known(tid) =>
          LET b == Row(store, tid).balance IN
          \A a \in Amounts \cup {b, b + 1} :
            LET r == create_withdrawal(Conn, tid, m, a, today) IN
            /\ a > b => /\ ~r.ret.ok
                        /\ r.ret.msg = "Insufficient balance"
                        /\ r.store = store
                        /\ r.committed = committed
            /\ a = b => /\ r.ret.ok
                        /\ Row(r.store, tid).balance = 0
                        /\ Row(r.committed, tid).balance = 0
                        /\ Len(r.committed.withdrawals) = Len(committed.withdrawals) + 1

\* A user whose whole positive balance was withdrawn.
C1_Witness ==
    \E u \in DOMAIN committed.users :
        /\ committed.users[u].balance = 0
        /\ \E i \in DOMAIN committed.withdrawals :
              /\ committed.withdrawals[i].user_id = u
              /\ committed.withdrawals[i].amount > 0

\* C2: under any interleaving of concurrent create_withdrawal calls no stored
\* balance is negative (no amount is paid out twice).
C2_NoDoubleSpend ==
    \A u \in DOMAIN committed.users : committed.users[u].balance >= 0

C4_AdViewsAddUp ==
    run.n > 0 =>
        /\ Known(run.tid)
        /\ Row(store, run.tid).earned_total = run.et0 + run.n * run.reward
        /\ Row(store, run.tid).watched_today = run.wt0 + run.n
        /\ Row(committed, run.tid).earned_total = run.et0 + run.n * run.reward
        /\ Row(committed, run.tid).watched_today = run.wt0 + run.n

C4_Witness == run.n >= 2 /\ run.reward > 0

\* C5: when concurrent add_ad_view calls for one user have all returned, the
\* user's earned_total, hold_balance and earned_today are above their initial
\* 0 by the sum of the rewards of the calls that returned True, and watched_today
\* by the number of those calls.
C5_NoLostAdView ==
    \A tid \in TelegramIds :
        (/\ AllDone
         /\ \A w \in Workers : calls[w].op = "add_ad_view" /\ calls[w].tid = tid
         /\ UserId(committed, tid) # NULL) =>
            LET ok == {w \in Workers : calls[w].ret.ok}
                u  == Row(committed, tid)
            IN  /\ u.earned_total = SumRewards(ok)
                /\ u.hold_balance = SumRewards(ok)
                /\ u.earned_today = SumRewards(ok)
                /\ u.watched_today = Cardinality(ok)
                /\ store = committed

C5_Witness ==
    /\ AllDone
    /\ \E tid \in TelegramIds :
          \A w \in Workers : /\ calls[w].op = "add_ad_view"
                             /\ calls[w].tid = tid
                             /\ calls[w].ret.ok
                             /\ calls[w].arg > 0

\* C6: a successful add_ad_view appends exactly one ad_views row, and the row
\* references the user whose counters the call credited.
C6_AdViewLogsCreditedUser ==
    tx # "INERROR" =>
      \A tid \in TelegramIds, reward \in Rewards :
        LET r == add_ad_view(Conn, tid, reward, today) IN
        r.ret.ok =>
          /\ Len(r.committed.ad_views) = Len(committed.ad_views) + 1
          /\ r.committed.ad_views[Len(r.committed.ad_views)].user_id = UserId(store, tid)
          /\ Row(r.committed, tid).earned_total = Row(store, tid).earned_total + reward

\* C7: add_ad_view returns True exactly when the user is stored, and for a
\* telegram id that is not stored it changes nothing.
C7_AdViewSucceedsIffKnown ==
    tx # "INERROR" =>
      \A tid \in TelegramIds, reward \in Rewards :
        LET r == add_ad_view(Conn, tid, reward, today) IN
        /\ r.ret.ok <=> Known(tid)
        /\ ~Known(tid) => r.store = store /\ r.committed = committed

\* C8: of two claim_streak calls for a stored user on one date the second
\* returns "Already claimed today" and changes nothing.
C8_SecondClaimRejected ==
    tx # "INERROR" =>
      \A tid \in TelegramIds :
        Known(tid) =>
          LET r1 == claim_streak(Conn, tid, today)
              r2 == claim_streak(ConnOf(r1), tid, today)
          IN  /\ ~r2.ret.ok
              /\ r2.ret.msg = "Already claimed today"
              /\ r2.store = r1.store
              /\ r2.committed = r1.committed

\* C9: claim_streak for a stored user whose last_streak_claim is not today
\* succeeds, returns STREAK_BONUS times the new multiplier, adds it to
\* earned_today, earned_total and hold_balance and sets last_streak_claim to
\* today, all durable at once.
C9_ClaimPaysBonus ==
    tx # "INERROR" =>
      \A tid \in TelegramIds :
        (Known(tid) /\ Row(store, tid).last_streak_claim # today) =>
          LET r == claim_streak(Conn, tid, today)
              u == Row(store, tid)
              v == Row(r.committed, tid)
          IN  /\ r.ret.ok
              /\ r.ret.val * MultiplierBase = STREAK_BONUS * v.streak_multiplier
              /\ v.earned_today = u.earned_today + r.ret.val
              /\ v.earned_total = u.earned_total + r.ret.val
              /\ v.hold_balance = u.hold_balance + r.ret.val
              /\ v.last_streak_claim = today

\* C10: a first claim sets streak to 1; a claim on the day after a claim
\* raises streak by 1; a claim two or more days after a claim sets it to 1.
C10_StreakContinuity ==
    tx # "INERROR" =>
      \A tid \in TelegramIds :
        (Known(tid) /\ Row(store, tid).last_streak_claim # today) =>
          LET r1 == claim_streak(Conn, tid, today)
              r2 == claim_streak(ConnOf(r1), tid, today + 1)
              r3 == claim_streak(ConnOf(r1), tid, today + 3)
          IN  /\ Row(store, tid).last_streak_claim = NoDate => Row(r1.store, tid).streak = 1
              /\ Row(r2.store, tid).streak = Row(r1.store, tid).streak + 1
              /\ Row(r3.store, tid).streak = 1

\* The calls of op for tid that have returned success.
OkCalls(op, tid) ==
    {w \in Workers : /\ calls[w].op = op /\ calls[w].tid = tid
                     /\ calls[w].pc = "done" /\ calls[w].ret.ok}

\* What the successful calls of W credit: the reward of an add_ad_view, the
\* bonus a claim_streak returned.
RECURSIVE SumCredits(_)
SumCredits(W) ==
    IF W = {} THEN 0
    ELSE LET w == CHOOSE x \in W : TRUE
         IN  (IF calls[w].op = "claim_streak" THEN calls[w].ret.val ELSE calls[w].arg)
             + SumCredits(W \ {w})

C12_MultiplierClamped ==
    tx # "INERROR" =>
      \A tid \in TelegramIds :
        (Known(tid) /\ Row(store, tid).last_streak_claim # today) =>
          LET u == Row(store, tid)
              n == NewStreak(u.streak, u.last_streak_claim, today)
              r == claim_streak(Conn, tid, today)
              v == Row(r.committed, tid)
          IN  /\ v.streak_multiplier >= MultiplierBase
              /\ v.streak_multiplier <= MultiplierCap
              /\ n >= 500 => /\ r.ret.ok
                             /\ v.streak_multiplier = MultiplierCap
                             /\ r.ret.val = 2 * STREAK_BONUS
                             /\ v.hold_balance = u.hold_balance + 2 * STREAK_BONUS

\* C13: reset_daily_stats succeeds, sets earned_today and watched_today of
\* every user to 0 and leaves every other column of every user, and every
\* other table, as it was; the result is durable.
C13_ResetZeroesDaily ==
    tx # "INERROR" =>
      LET r == reset_daily_stats(Conn) IN
      /\ r.ret.ok
      /\ r.committed = r.store
      /\ DOMAIN r.store.users = DOMAIN store.users
      /\ \A u \in DOMAIN store.users :
            LET a == store.users[u] b == r.store.users[u] IN
            /\ b.earned_today = 0
            /\ b.watched_today = 0
            /\ b.earned_total = a.earned_total
            /\ b.balance = a.balance
            /\ b.hold_balance = a.hold_balance
            /\ b.streak = a.streak
            /\ b.streak_multiplier = a.streak_multiplier
            /\ b.last_streak_claim = a.last_streak_claim
            /\ b.telegram_id = a.telegram_id
            /\ b.referred_by = a.referred_by
      /\ r.store.ad_views = store.ad_views
      /\ r.store.withdrawals = store.withdrawals
      /\ r.store.referrals = store.referrals

\* A user that earned a reward and whose daily counters were cleared after it.
C13_Witness ==
    \E u \in DOMAIN committed.users :
        /\ committed.users[u].earned_total > 0
        /\ committed.users[u].hold_balance > 0
        /\ committed.users[u].earned_today = 0
        /\ committed.users[u].watched_today = 0

\* C14: when reset_daily_stats calls and add_ad_view or claim_streak calls for
\* a user ran concurrently and all returned success, the user's earned_total
\* and hold_balance hold every credit, and earned_today and watched_today are
\* those of a serial order: the credits of some of the calls (those after the
\* reset) and the number of add_ad_view calls among them.
C14_ResetLosesNoReward ==
    \A tid \in TelegramIds :
        (/\ AllDone
         /\ UserId(committed, tid) # NULL
         /\ \E w \in Workers : calls[w].op = "reset_daily_stats"
         /\ \A w \in Workers :
               /\ calls[w].ret.ok
               /\ \/ calls[w].op = "reset_daily_stats"
                  \/ calls[w].op \in {"add_ad_view", "claim_streak"} /\ calls[w].tid = tid) =>
            LET A == OkCalls("add_ad_view", tid)
                C == OkCalls("claim_streak", tid)
                u == Row(committed, tid)
            IN  /\ u.earned_total = SumCredits(A \cup C)
                /\ u.hold_balance = SumCredits(A \cup C)
                /\ \E S \in SUBSET (A \cup C) :
                      /\ u.earned_today = SumCredits(S)
                      /\ u.watched_today = Cardinality(S \cap A)
                /\ store = committed

\* A reset and an add_ad_view ran together, both succeeded, and the reset's
\* statement came after the reward's.
C14_Witness ==
    /\ AllDone
    /\ \E w \in Workers : calls[w].op = "reset_daily_stats" /\ calls[w].ret.ok
    /\ \E w \in Workers :
          /\ calls[w].op = "add_ad_view" /\ calls[w].ret.ok /\ calls[w].arg > 0
          /\ UserId(committed, calls[w].tid) # NULL
          /\ Row(committed, calls[w].tid).earned_total = calls[w].arg
          /\ Row(committed, calls[w].tid).earned_today = 0

Linked(s) ==
    /\ \A u \in DOMAIN s.users :
          LET R == s.users[u].referred_by
              edges == {i \in DOMAIN s.referrals : s.referrals[i].referred_id = u}
          IN  /\ Cardinality(edges) <= 1
              /\ R # NULL => /\ Cardinality(edges) = 1
                             /\ \A i \in edges : s.referrals[i].referrer_id = R
              /\ R = NULL => edges = {}
    /\ \A i \in DOMAIN s.referrals :
          /\ s.referrals[i].referred_id \in DOMAIN s.users
          /\ s.users[s.referrals[i].referred_id].referred_by = s.referrals[i].referrer_id

UserIdByCode(s, code) ==
    IF \E i \in DOMAIN s.users : s.users[i].referral_code = code
    THEN CHOOSE i \in DOMAIN s.users : s.users[i].referral_code = code
    ELSE NULL

\* C16: start for a telegram id that is not stored, with a referral code,
\* leaves a user for that id in the durable store: linked to the owner of the
\* code when a user has the code, and with referred_by NULL and no referrals
\* row when none has.
C16_FirstContactCreates ==
    tx # "INERROR" =>
      \A tid \in TelegramIds, args \in StartArgs \ {<<>>} :
        ~Known(tid) =>
          LET r == start(Conn, tid, args, today)
              R == UserIdByCode(store, args)
              id == UserId(r.committed, tid)
          IN  /\ id # NULL
              /\ r.committed.users[id].referred_by = R
              /\ R # NULL <=> \E i \in DOMAIN r.committed.referrals :
                                 /\ r.committed.referrals[i].referrer_id = R
                                 /\ r.committed.referrals[i].referred_id = id

\* C17: no two users have one telegram id; for a stored telegram id start
\* changes nothing, and create_user fails on the unique constraint and leaves
\* the store as it was.
C17_OneUserPerTelegramId ==
    /\ \A i, j \in DOMAIN store.users :
          store.users[i].telegram_id = store.users[j].telegram_id => i = j
    /\ \A i, j \in DOMAIN committed.users :
          committed.users[i].telegram_id = committed.users[j].telegram_id => i = j
    /\ tx # "INERROR" =>
          \A tid \in TelegramIds :
            Known(tid) =>
              /\ \A args \in StartArgs :
                    LET r == start(Conn, tid, args, today) IN
                    /\ r.store = store /\ r.committed = committed
                    /\ r.tx = tx /\ r.seq = seq
              /\ \A ref \in 0..MaxUsers :
                    LET r == create_user(Conn, tid, <<>>, ref, today) IN
                    /\ ~r.ret.ok
                    /\ r.ret.msg = "UniqueViolation"
                    /\ r.store = store /\ r.committed = committed

\* A create_user call was rejected, and burned an id, with users stored.
C17_Witness ==
    /\ tx = "INERROR"
    /\ Cardinality(DOMAIN committed.users) = MaxUsers
    /\ seq > MaxUsers + 1

\* C18: when a user referred by R makes two successful add_ad_view calls of
\* reward r, profit_30 of R rises by 2 * r * 0.2 (both calls succeed, and both
\* rewards are counted for R).
C18_ReferralProfit ==
    tx # "INERROR" =>
      \A R \in TelegramIds, u \in TelegramIds, reward \in Rewards :
        (Known(R) /\ Known(u) /\ R # u /\ Row(store, u).referred_by = UserId(store, R)) =>
          LET r1 == add_ad_view(Conn, u, reward, today)
              r2 == add_ad_view(ConnOf(r1), u, reward, today)
              before == get_referral_stats(Conn, R, today)
              after == get_referral_stats(ConnOf(r2), R, today)
          IN  /\ r1.ret.ok /\ r2.ret.ok
              /\ after.ok
              /\ after.val.profit_30 = before.val.profit_30 + 2 * reward * ShareTenths

\* C19: when all calls have returned, the durable store holds nothing of a
\* call that failed: a user's earned_total and hold_balance are at most the
\* credits of the calls for that user that returned success, and there are at
\* most as many ad_views rows as successful add_ad_view calls.
C19_NoPartialWrites ==
    AllDone =>
      /\ \A tid \in TelegramIds :
            UserId(committed, tid) # NULL =>
              LET ok == OkCalls("add_ad_view", tid) \cup OkCalls("claim_streak", tid)
              IN  /\ Row(committed, tid).earned_total <= SumCredits(ok)
                  /\ Row(committed, tid).hold_balance <= SumCredits(ok)
      /\ Len(committed.ad_views) <=
            Cardinality(UNION {OkCalls("add_ad_view", tid) : tid \in TelegramIds})

\* C20: no step lowers the earned_total of a user, in the connection's view
\* or in the durable store, and no step removes a user.
C20_EarnedTotalMonotone ==
    [][/\ \A u \in DOMAIN store.users :
            /\ u \in DOMAIN store'.users
            /\ store'.users[u].earned_total >= store.users[u].earned_total
       /\ \A u \in DOMAIN committed.users :
            /\ u \in DOMAIN committed'.users
            /\ committed'.users[u].earned_total >= committed.users[u].earned_total
      ]_vars

\* A user credited today, after which other steps were taken.
C20_Witness ==
    \E u \in DOMAIN committed.users :
        /\ committed.users[u].earned_total > 0
        /\ committed.users[u].earned_today > 0
        /\ committed.users[u].earned_total >= committed.users[u].earned_today

\* C21: create_withdrawal leaves the user's hold_balance, earned_today and
\* earned_total as they were, and add_ad_view and claim_streak leave the user's
\* balance as it was.
C21_IndependentPools ==
    tx # "INERROR" =>
      \A tid \in TelegramIds :
        Known(tid) =>
          LET u == Row(store, tid) IN
          /\ \A m \in Methods, a \in Amounts \cup {u.balance} :
                LET v == Row(create_withdrawal(Conn, tid, m, a, today).committed, tid) IN
                /\ v.hold_balance = u.hold_balance
                /\ v.earned_today = u.earned_today
                /\ v.earned_total = u.earned_total
          /\ \A reward \in Rewards :
                Row(add_ad_view(Conn, tid, reward, today).committed, tid).balance = u.balance
          /\ Row(claim_streak(Conn, tid, today).committed, tid).balance = u.balance

\* A user that was credited a reward and paid out its whole balance.
C21_Witness ==
    \E u \in DOMAIN committed.users :
        /\ committed.users[u].hold_balance > 0
        /\ committed.users[u].balance = 0
        /\ \E i \in DOMAIN committed.withdrawals :
              /\ committed.withdrawals[i].user_id = u
              /\ committed.withdrawals[i].amount > 0

\* What a call for tid left of the other users and whom its new rows name.
OnlyTouches(r, tid) ==
    /\ \A u \in DOMAIN committed.users :
          u # UserId(store, tid) =>
            /\ u \in DOMAIN r.committed.users
            /\ r.committed.users[u] = committed.users[u]
    /\ \A i \in DOMAIN r.committed.ad_views :
          i > Len(committed.ad_views) => r.committed.ad_views[i].user_id = UserId(store, tid)
    /\ \A i \in DOMAIN r.committed.withdrawals :
          i > Len(committed.withdrawals) =>
            r.committed.withdrawals[i].user_id = UserId(store, tid)

\* C22: add_ad_view, claim_streak and create_withdrawal for a stored user leave
\* the row of every other user as it was and add no ad_views or withdrawals row
\* that names another user.
C22_OtherUsersUntouched ==
    tx # "INERROR" =>
      \A tid \in TelegramIds :
        Known(tid) =>
          /\ \A reward \in Rewards : OnlyTouches(add_ad_view(Conn, tid, reward, today), tid)
          /\ OnlyTouches(claim_streak(Conn, tid, today), tid)
          /\ \A m \in Methods, a \in Amounts :
                OnlyTouches(create_withdrawal(Conn, tid, m, a, today), tid)

MultiplierOfStreak(s) ==
    \A u \in DOMAIN s.users :
        LET linear == MultiplierBase + s.users[u].streak * StreakRate IN
        /\ s.users[u].streak >= 0
        /\ s.users[u].streak_multiplier =
              (IF linear <= MultiplierCap THEN linear ELSE MultiplierCap)
        /\ s.users[u].last_streak_claim = NoDate =>
              s.users[u].streak_multiplier = MultiplierBase

\* C23: every stored user's streak_multiplier is min(1.0 + streak * 0.002, 2.0)
\* of its streak, and 1.0 for a user that never claimed, in the connection's
\* view, in the durable store, and in what a claim_streak call would leave.
C23_MultiplierOfStreak ==
    /\ MultiplierOfStreak(store)
    /\ MultiplierOfStreak(committed)
    /\ \A tid \in TelegramIds : MultiplierOfStreak(claim_streak(Conn, tid, today).committed)

\* Users registered by create_user, beyond those found at start.
C23_Witness ==
    /\ Cardinality(DOMAIN committed.users) > MaxInitUsers
    /\ \A u \in DOMAIN committed.users : committed.users[u].streak_multiplier = MultiplierBase

IsPrefix(a, b) == Len(a) <= Len(b) /\ \A i \in DOMAIN a : b[i] = a[i]

\* C24: every step leaves the ad_views, referrals and withdrawals rows of the
\* durable store and of the connection's view in place, unchanged and in
\* order, with any new rows after them, and removes no user.
C24_AppendOnly ==
    [][/\ IsPrefix(committed.ad_views, committed'.ad_views)
       /\ IsPrefix(committed.referrals, committed'.referrals)
       /\ IsPrefix(committed.withdrawals, committed'.withdrawals)
       /\ DOMAIN committed.users \subseteq DOMAIN committed'.users
       /\ IsPrefix(store.ad_views, store'.ad_views)
       /\ IsPrefix(store.referrals, store'.referrals)
       /\ IsPrefix(store.withdrawals, store'.withdrawals)
       /\ DOMAIN store.users \subseteq DOMAIN store'.users
      ]_vars

\* Two ad_views rows in the durable store.
C24_Witness == Len(committed.ad_views) >= 2

CodesUnique(s) ==
    \A i, j \in DOMAIN s.users :
        s.users[i].referral_code = s.users[j].referral_code => i = j

\* C25: no two users share a referral_code, in the connection's view and in
\* the durable store; create_user without a code, for a telegram id that is
\* not stored, fails and leaves the users as they were when the code derived
\* from the id is the code of a stored user, and otherwise stores the user with
\* the code derived from the id, whoever referred it.
C25_DerivedCodeUnique ==
    /\ CodesUnique(store)
    /\ CodesUnique(committed)
    /\ tx # "INERROR" =>
          \A tid \in RegistrationIds, ref \in {NULL} \cup DOMAIN store.users :
            ~Known(tid) =>
              LET r == create_user(Conn, tid, <<>>, ref, today) IN
              IF UserIdByCode(store, DerivedCode(tid)) # NULL
              THEN /\ ~r.ret.ok
                   /\ r.ret.msg = "UniqueViolation"
                   /\ r.store = store
                   /\ r.committed = committed
              ELSE /\ r.ret.ok
                   /\ Row(r.committed, tid).referral_code = DerivedCode(tid)

\* A create_user that failed for an id that is not stored while a stored user
\* holds the code derived from it.
C25_Witness ==
    /\ calls[1].op = "create_user"
    /\ ~calls[1].ret.ok
    /\ calls[1].ret.msg = "UniqueViolation"
    /\ UserId(committed, calls[1].tid) = NULL
    /\ UserIdByCode(committed, DerivedCode(calls[1].tid)) # NULL

\* C26: whatever calls failed before, create_user for a telegram id that is
\* not stored (and whose code is free) succeeds and is durable, and
\* create_withdrawal of a stored user's whole balance succeeds and is durable.
C26_HandleNotPoisoned ==
    \A tid \in TelegramIds :
        /\ (/\ UserId(committed, tid) = NULL
            /\ UsersInsertAccepted(committed, tid, DerivedCode(tid))) =>
              LET r == create_user(Conn, tid, <<>>, NULL, today) IN
              /\ r.ret.ok
              /\ UserId(r.committed, tid) # NULL
        /\ UserId(committed, tid) # NULL =>
              \A m \in Methods :
                LET r == create_withdrawal(Conn, tid, m, Row(committed, tid).balance, today) IN
                /\ r.ret.ok
                /\ Len(r.committed.withdrawals) = Len(committed.withdrawals) + 1

HoldIsEarned(s) ==
    \A u \in DOMAIN s.users : s.users[u].hold_balance = s.users[u].earned_total

\* C27: every user's hold_balance equals its earned_total, in the connection's
\* view and in the durable store.
C27_HoldEqualsEarnedTotal == HoldIsEarned(store) /\ HoldIsEarned(committed)

\* A user credited twice.
C27_Witness ==
    \E u \in DOMAIN committed.users :
        /\ committed.users[u].hold_balance >= 2 * PER_AD_REWARD
        /\ committed.users[u].earned_total >= 2 * PER_AD_REWARD

TodayWithinTotal(s) ==
    \A u \in DOMAIN s.users :
        /\ 0 <= s.users[u].earned_today
        /\ s.users[u].earned_today <= s.users[u].earned_total

\* C28: for every user 0 <= earned_today <= earned_total, in the connection's
\* view and in the durable store.
C28_TodayWithinTotal == TodayWithinTotal(store) /\ TodayWithinTotal(committed)

\* A user credited, reset and credited again.
C28_Witness ==
    \E u \in DOMAIN committed.users :
        /\ committed.users[u].earned_today > 0
        /\ committed.users[u].earned_today < committed.users[u].earned_total

\* C29: for every amount, zero and negative ones included, create_withdrawal
\* leaves the user's balance equal or lower and adds no withdrawals row with an
\* amount of 0 or less.
C29_NoCreditByWithdrawal ==
    tx # "INERROR" =>
      \A tid \in TelegramIds, m \in Methods, a \in Amounts :
        Known(tid) =>
          LET r == create_withdrawal(Conn, tid, m, a, today) IN
          /\ Row(r.committed, tid).balance <= Row(committed, tid).balance
          /\ \A i \in DOMAIN r.committed.withdrawals :
                i > Len(committed.withdrawals) => r.committed.withdrawals[i].amount > 0

\* C30: from tables that start empty, every user's balance is 0 and no
\* withdrawals row has a positive amount, in the connection's view and in the
\* durable store, and create_withdrawal of a positive amount for a stored user
\* returns "Insufficient balance".
C30_NothingToWithdraw ==
    /\ \A s \in {store, committed} :
          /\ \A u \in DOMAIN s.users : s.users[u].balance = 0
          /\ \A i \in DOMAIN s.withdrawals : s.withdrawals[i].amount <= 0
    /\ tx # "INERROR" =>
          \A tid \in TelegramIds, m \in Methods, a \in Amounts :
            (Known(tid) /\ a > 0) =>
              LET r == create_withdrawal(Conn, tid, m, a, today) IN
              /\ ~r.ret.ok
              /\ r.ret.msg = "Insufficient balance"

TypeOK ==
    /\ tx \in {"IDLE", "INERROR"}
    /\ today \in 0..MaxDay
    /\ \A i \in DOMAIN store.users : store.users[i].telegram_id \in TelegramIds

====
